---- MODULE Spec2Model ----
(***************************************************************************)
(* Model of the path matcher of rest/matcher (match.go): the pattern       *)
(* compiler (Compile, CompileSection), the section matcher                 *)
(* (Section.Match), the registration trie (Tree.Register) and the descent  *)
(* (Tree.Match, matchchildren).                                            *)
(*                                                                         *)
(* A Go string is a sequence of one-character strings; Go's 0-based        *)
(* indices and half-open slices are kept through At and Slice.             *)
(***************************************************************************)
EXTENDS Integers, Sequences, FiniteSets, TLC

VARIABLES tree, ret, mux, resp

vars == <<tree, ret, mux, resp>>

(***************************************************************************)
(* Go strings                                                              *)
(***************************************************************************)
At(s, i) == s[i + 1]

Slice(s, a, b) == SubSeq(s, a + 1, b)

SliceFrom(s, a) == SubSeq(s, a + 1, Len(s))

HasPrefix(s, p) == Len(s) >= Len(p) /\ SubSeq(s, 1, Len(p)) = p

OccursAt(s, sub, i) == i + Len(sub) <= Len(s) /\ Slice(s, i, i + Len(sub)) = sub

\* strings.Index / strings.IndexRune: the first occurrence, -1 when there is none
Index(s, sub) ==
    IF \E i \in 0..Len(s) : OccursAt(s, sub, i)
    THEN CHOOSE i \in 0..Len(s) :
            OccursAt(s, sub, i) /\ \A j \in 0..(i - 1) : ~OccursAt(s, sub, j)
    ELSE -1

RECURSIVE Join(_)
\* strings.Join(tokens, "")
Join(tokens) == IF tokens = <<>> THEN <<>> ELSE Head(tokens) \o Join(Tail(tokens))

(***************************************************************************)
(* regexp.Compile("^" + regstr + "$") and Regexp.MatchString, for the      *)
(* constraints the patterns of this model use: a sequence of items, each a *)
(* character class [x-y] or a plain character, optionally followed by +.   *)
(***************************************************************************)
Alphabet ==
    <<"0", "1", "2", "3", "4", "5", "6", "7", "8", "9",
      "A", "B", "C", "D", "E", "F", "G", "H", "I", "J", "K", "L", "M",
      "N", "O", "P", "Q", "R", "S", "T", "U", "V", "W", "X", "Y", "Z",
      "a", "b", "c", "d", "e", "f", "g", "h", "i", "j", "k", "l", "m",
      "n", "o", "p", "q", "r", "s", "t", "u", "v", "w", "x", "y", "z">>

IsAlnum(c) == \E i \in 1..Len(Alphabet) : Alphabet[i] = c

Ord(c) == CHOOSE i \in 1..Len(Alphabet) : Alphabet[i] = c

RegexMeta == {"[", "]", "+", "\\", "(", ")", "*", "?", "{", "}", "|", "^", "$", "."}

RECURSIVE RegexItems(_)
\* the items of a constraint; ok is FALSE when the constraint does not compile
RegexItems(re) ==
    IF re = <<>> THEN [ok |-> TRUE, items |-> <<>>]
    ELSE LET isClass == Len(re) >= 5 /\ re[1] = "[" /\ IsAlnum(re[2]) /\ re[3] = "-"
                            /\ IsAlnum(re[4]) /\ re[5] = "]" /\ Ord(re[2]) <= Ord(re[4])
             isChar  == re[1] \notin RegexMeta
             n       == IF isClass THEN 5 ELSE 1
             plus    == Len(re) > n /\ re[n + 1] = "+"
             rest    == RegexItems(SubSeq(re, n + (IF plus THEN 2 ELSE 1), Len(re)))
             item    == [lo |-> IF isClass THEN re[2] ELSE re[1],
                         hi |-> IF isClass THEN re[4] ELSE re[1],
                         class |-> isClass, plus |-> plus]
         IN  IF (~isClass /\ ~isChar) \/ ~rest.ok THEN [ok |-> FALSE, items |-> <<>>]
             ELSE [ok |-> TRUE, items |-> <<item>> \o rest.items]

RegexCompiles(re) == RegexItems(re).ok

ItemAccepts(item, c) ==
    IF item.class THEN IsAlnum(c) /\ Ord(item.lo) <= Ord(c) /\ Ord(c) <= Ord(item.hi)
    ELSE c = item.lo

RECURSIVE ItemsMatch(_, _)
\* the whole of s is matched by the items (the expression is anchored at both ends)
ItemsMatch(items, s) ==
    IF items = <<>> THEN s = <<>>
    ELSE LET it == Head(items)
         IN  IF it.plus
             THEN \E k \in 1..Len(s) :
                     /\ \A j \in 1..k : ItemAccepts(it, s[j])
                     /\ ItemsMatch(Tail(items), SubSeq(s, k + 1, Len(s)))
             ELSE s # <<>> /\ ItemAccepts(it, s[1]) /\ ItemsMatch(Tail(items), Tail(s))

\* Regexp.MatchString of the anchored constraint
MatchString(re, s) == ItemsMatch(RegexItems(re).items, s)

(***************************************************************************)
(* Element, Compile, CompileSection                                        *)
(***************************************************************************)
\* Element; Validate is the constraint's text, <<>> standing for the nil *Regexp
Element(pattern, varname, greedy, validate) ==
    [Pattern |-> pattern, VarName |-> varname, Greedy |-> greedy, Validate |-> validate]

Const(pattern) == Element(pattern, <<>>, FALSE, <<>>)

NoError == <<>>

CompileError(pattern, position, str, message) ==
    <<[Pattern |-> pattern, Position |-> position, Str |-> str, Message |-> message]>>

RECURSIVE CompileLoop(_, _, _, _, _)
\* the closing brace of a variable at i: varname is the text between the braces,
\* idx the position of its ":" (-1: no constraint)
CompileVariable(pattern, i, elems, pre, curly, varname, idx) ==
    LET name    == IF idx # -1 THEN Slice(varname, 0, idx) ELSE varname
        regstr  == IF idx # -1 THEN SliceFrom(varname, idx + 1) ELSE <<>>
        greedy  == i < Len(pattern) - 1 /\ At(pattern, i + 1) = "*"
    IN  IF regstr # <<>> /\ ~RegexCompiles(regstr)
        THEN [elems |-> <<>>, pre |-> pre, curly |-> curly,
              err |-> CompileError(pattern, pre + 1 + idx + 1, regstr,
                                   "error parsing regexp")]
        ELSE CompileLoop(pattern, (IF greedy THEN i + 1 ELSE i) + 1,
                         Append(elems, Element(Slice(pattern, pre, i + 1), name, greedy,
                                               regstr)),
                         -1, curly - 1)

\* the scanning loop of Compile: i is the loop index, pre the start of the open
\* run (-1: none), curly the brace depth
CompileLoop(pattern, i, elems, pre, curly) ==
    IF i >= Len(pattern) THEN [elems |-> elems, pre |-> pre, curly |-> curly, err |-> NoError]
    ELSE
    LET c == At(pattern, i)
        closed == IF pre # -1 THEN Append(elems, Const(Slice(pattern, pre, i))) ELSE elems
    IN
    CASE c = "\\" -> CompileLoop(pattern, i + 2, elems, pre, curly)
      [] c = "{" ->
            IF curly = 0
            THEN CompileLoop(pattern, i + 1, closed, i, curly + 1)
            ELSE CompileLoop(pattern, i + 1, elems, pre, curly + 1)
      [] c = "}" ->
            IF curly = 1
            THEN CompileVariable(pattern, i, elems, pre, curly, Slice(pattern, pre + 1, i),
                                 Index(Slice(pattern, pre + 1, i), <<":">>))
            ELSE CompileLoop(pattern, i + 1, elems, pre, curly - 1)
      [] c = "/" ->
            IF curly # 0
            THEN CompileLoop(pattern, i + 1, elems, pre, curly)
            ELSE CompileLoop(pattern, i + 1, closed, i, curly)
      [] OTHER ->
            IF curly = 0 /\ pre = -1
            THEN CompileLoop(pattern, i + 1, elems, i, curly)
            ELSE CompileLoop(pattern, i + 1, elems, pre, curly)

\* the last loop of Compile: a literal that ends in * is greedy and loses the *
ConstGreedy(e) ==
    IF e.VarName = <<>> /\ e.Pattern # <<>> /\ e.Pattern[Len(e.Pattern)] = "*"
    THEN [e EXCEPT !.Greedy = TRUE, !.Pattern = Slice(e.Pattern, 0, Len(e.Pattern) - 1)]
    ELSE e

\* what Compile does after the scanning loop, r being the loop's outcome
CompileEnd(pattern, r) ==
    IF r.err # NoError THEN [elems |-> <<>>, err |-> r.err]
    ELSE IF r.curly # 0
    THEN [elems |-> <<>>,
          err |-> CompileError(pattern, Len(pattern) - 1, <<>>, "unclosed variable")]
    ELSE LET elems == IF r.pre # -1
                      THEN Append(r.elems, Const(SliceFrom(pattern, r.pre)))
                      ELSE r.elems
         IN  [elems |-> [k \in 1..Len(elems) |-> ConstGreedy(elems[k])], err |-> NoError]

\* Compile: the elements of a pattern, or a CompileError
Compile(pattern) == CompileEnd(pattern, CompileLoop(pattern, 0, <<>>, -1, 0))

RECURSIVE SectionLoop(_, _, _, _)
\* the loop of CompileSection over the elements: a greedy variable closes the
\* pattern's last section, a literal that starts with / opens a new section
SectionLoop(elems, i, sections, pre) ==
    IF i >= Len(elems)
    THEN IF pre # Len(elems) THEN Append(sections, SliceFrom(elems, pre)) ELSE sections
    ELSE LET elem == At(elems, i)
         IN  IF elem.VarName # <<>> /\ elem.Greedy
             THEN Append(sections, SliceFrom(elems, pre))
             ELSE IF elem.VarName = <<>> /\ HasPrefix(elem.Pattern, <<"/">>)
             THEN SectionLoop(elems, i + 1,
                              IF i # pre THEN Append(sections, Slice(elems, pre, i))
                              ELSE sections,
                              i)
             ELSE SectionLoop(elems, i + 1, sections, pre)

\* what CompileSection does with Compile's outcome c
SectionsOf(c) ==
    IF c.err # NoError THEN [sections |-> <<>>, err |-> c.err]
    ELSE [sections |-> SectionLoop(c.elems, 0, <<>>, 0), err |-> NoError]

\* CompileSection: the sections of a pattern, or Compile's error
CompileSection(pattern) == SectionsOf(Compile(pattern))

(***************************************************************************)
(* Section: String, score, Match                                           *)
(***************************************************************************)
RECURSIVE SectionString(_)
\* Section.String: the elements' Pattern texts, concatenated
SectionString(s) == IF s = <<>> THEN <<>> ELSE Head(s).Pattern \o SectionString(Tail(s))

\* elemScore with the greedy sections sent to the back and a variable counted
\* against the section
elemScore_GreedyLast(v) ==
    (IF v.Greedy THEN -1000 ELSE 0) + (IF v.VarName # <<>> THEN -1 ELSE 100)

\* what one element adds to a section's score
elemScore(v) == (IF v.Greedy THEN 1 ELSE 0) + (IF v.VarName # <<>> THEN 10 ELSE 100)

RECURSIVE score(_)
\* Section.score
score(s) == IF s = <<>> THEN 0 ELSE elemScore(Head(s)) + score(Tail(s))

\* map[string]string
EmptyMap == [k \in {} |-> <<>>]

MapSet(m, k, v) == [x \in (DOMAIN m) \cup {k} |-> IF x = k THEN v ELSE m[x]]

\* maps.Copy(dst, src)
MapsCopy(dst, src) ==
    [x \in (DOMAIN dst) \cup (DOMAIN src) |-> IF x \in DOMAIN src THEN src[x] ELSE dst[x]]

NoMatch == [matched |-> FALSE, left |-> <<>>, vars |-> EmptyMap]

\* Validates that never consults the constraint
Validates_Unchecked(elem, s) == TRUE

\* the value a variable may take: not checked when the variable has no constraint
Validates(elem, s) == elem.Validate = <<>> \/ MatchString(elem.Validate, s)

\* GreedyToken that keeps to the current token and drops the tokens left
GreedyToken_HeadOnly(token, lefttokens) == token

\* a greedy element takes the rest of the path: the token and the tokens left, joined
GreedyToken(token, lefttokens) == Join(<<token>> \o lefttokens)

SectionFailed(pre) ==
    [failed |-> TRUE, token |-> <<>>, left |-> <<>>, vars |-> EmptyMap, pre |-> pre]

RECURSIVE SectionMatchLoop(_, _, _, _, _, _)
\* a literal element found at index in the token (-1: not found): the text before
\* it is the value of the variable that precedes it
SectionMatchConst(s, k, token, lefttokens, bound, pre, elem, index) ==
    LET varmatch == Slice(token, 0, index)
    IN  IF index = -1 THEN SectionFailed(pre)
        ELSE IF pre.VarName # <<>> /\ (varmatch = <<>> \/ ~Validates(pre, varmatch))
        THEN SectionFailed(pre)
        ELSE SectionMatchLoop(s, k + 1, SliceFrom(token, index + Len(elem.Pattern)),
                              lefttokens,
                              IF pre.VarName # <<>>
                              THEN MapSet(bound, pre.VarName, varmatch)
                              ELSE bound,
                              elem)

\* the body of the loop of Section.Match for the element elem, the token being
\* the joined rest of the path when the element is greedy
SectionMatchElem(s, k, token, lefttokens, bound, pre, elem) ==
    IF elem.VarName = <<>>
    THEN SectionMatchConst(s, k, token, lefttokens, bound, pre, elem,
                           Index(token, elem.Pattern))
    ELSE SectionMatchLoop(s, k + 1, token, lefttokens, bound, elem)

\* the loop of Section.Match over the elements s[k..]
SectionMatchLoop(s, k, token, lefttokens, bound, pre) ==
    IF k > Len(s)
    THEN [failed |-> FALSE, token |-> token, left |-> lefttokens, vars |-> bound, pre |-> pre]
    ELSE SectionMatchElem(s, k,
                          IF s[k].Greedy THEN GreedyToken(token, lefttokens) ELSE token,
                          IF s[k].Greedy THEN <<>> ELSE lefttokens,
                          bound, pre, s[k])

\* what Section.Match does after the loop, r being the loop's outcome
SectionMatchEnd(r) ==
    LET \* unclosed const greedy
        token1 == IF r.pre.VarName = <<>> /\ r.pre.Greedy THEN <<>> ELSE r.token
    IN  IF r.failed THEN NoMatch
        ELSE IF r.pre.VarName # <<>>
        THEN \* unclosed variable
             IF ~Validates(r.pre, token1) THEN NoMatch
             ELSE [matched |-> TRUE, left |-> r.left,
                   vars |-> MapSet(r.vars, r.pre.VarName, token1)]
        ELSE IF token1 # <<>> THEN NoMatch
        ELSE [matched |-> TRUE, left |-> r.left, vars |-> r.vars]

\* Section.Match: (matched, lefttokens, vars)
SectionMatch(s, tokens) ==
    IF tokens = <<>> THEN NoMatch
    ELSE SectionMatchEnd(SectionMatchLoop(s, 1, Head(tokens), Tail(tokens), EmptyMap,
                                          Element(<<>>, <<>>, FALSE, <<>>)))

RECURSIVE PathTokensLoop(_, _, _, _)
PathTokensLoop(path, i, pos, tokens) ==
    IF i >= Len(path)
    THEN IF pos # Len(path) THEN Append(tokens, SliceFrom(path, pos)) ELSE tokens
    ELSE IF At(path, i) = "/"
         THEN PathTokensLoop(path, i + 1, i,
                             IF pos # i THEN Append(tokens, Slice(path, pos, i)) ELSE tokens)
         ELSE PathTokensLoop(path, i + 1, pos, tokens)

\* PathTokens: "/apis/v1/abc" gives "/apis", "/v1", "/abc"
PathTokens(path) == PathTokensLoop(path, 0, 0, <<>>)

(***************************************************************************)
(* Tree: a sequence of nodes, the root first; children are node indices;   *)
(* val is <<>> (nil) or <<matchitem>>                                      *)
(***************************************************************************)
Nil == <<>>

Root == 1

Node(key) == [key |-> key, val |-> Nil, children |-> <<>>]

matchitem(pattern, val) == <<[pattern |-> pattern, val |-> val]>>

NewMatcher == <<Node(<<>>)>>

\* Tree.indexChild: the position (from 0) of the child with the same String, or -1
indexChild(t, n, key) ==
    LET ch == t[n].children
        same(k) == SectionString(t[ch[k]].key) = SectionString(key)
    IN  IF \E k \in 1..Len(ch) : same(k)
        THEN (CHOOSE k \in 1..Len(ch) : same(k) /\ \A j \in 1..(k - 1) : ~same(j)) - 1
        ELSE -1

\* ScoreLess with the comparison turned round: the lowest score first
ScoreLess_Ascending(t, a, b) == score(t[a].key) < score(t[b].key)

\* the less function Register sorts with
ScoreLess(t, a, b) == score(t[a].key) > score(t[b].key)

RECURSIVE Sink(_, _, _)
\* the inner loop of the insertion sort: data[j] moves left while it is less
Sink(t, data, j) ==
    IF j > 1 /\ ScoreLess(t, data[j], data[j - 1])
    THEN Sink(t, [data EXCEPT ![j] = data[j - 1], ![j - 1] = data[j]], j - 1)
    ELSE data

RECURSIVE SortFrom(_, _, _)
SortFrom(t, data, i) == IF i > Len(data) THEN data ELSE SortFrom(t, Sink(t, data, i), i + 1)

\* slices.SortFunc on at most 12 elements: an insertion sort
SortFunc(t, data) == SortFrom(t, data, 2)

RECURSIVE variables_Unique(_)
\* variables that lists a name once, however often the pattern uses it
variables_Unique(sections) ==
    IF sections = <<>> THEN <<>>
    ELSE LET s == Head(sections)
             names == [k \in 1..Len(s) |-> s[k].VarName]
             rest == variables_Unique(Tail(sections))
         IN  SelectSeq(names, LAMBDA n : n # <<>> /\ ~\E k \in 1..Len(rest) : rest[k] = n)
             \o rest

RECURSIVE variables(_)
\* variables: the non-empty variable names of the sections, in order
variables(sections) ==
    IF sections = <<>> THEN <<>>
    ELSE LET s == Head(sections)
             names == [k \in 1..Len(s) |-> s[k].VarName]
         IN  SelectSeq(names, LAMBDA n : n # <<>>) \o variables(Tail(sections))

ConflictError(pattern, exists) == <<[Pattern |-> pattern, Exists |-> exists, Message |-> "conflicts"]>>

\* a new child of cur for the section, the children sorted again
AddChild(t, cur, section) ==
    LET added == Append(t, Node(section))
    IN  [added EXCEPT ![cur].children = SortFunc(added, Append(t[cur].children, Len(added)))]

RECURSIVE RegisterLoop(_, _, _, _, _, _)
\* RegisterChild that stores the new value before it reports the conflict
RegisterChild_Overwrite(t, child, sections, i, pattern, val) ==
    IF i = Len(sections) - 1
    THEN IF t[child].val # Nil
         THEN [tree |-> [t EXCEPT ![child].val = matchitem(pattern, val)],
               err |-> <<[Pattern |-> pattern, Exists |-> t[child].val[1].pattern,
                          Message |-> "conflicts"]>>]
         ELSE RegisterLoop([t EXCEPT ![child].val = matchitem(pattern, val)],
                           child, sections, i + 1, pattern, val)
    ELSE RegisterLoop(t, child, sections, i + 1, pattern, val)

\* the end of the loop's body: child is the node of section i in the tree t
RegisterChild(t, child, sections, i, pattern, val) ==
    IF i = Len(sections) - 1
    THEN IF t[child].val # Nil
         THEN [tree |-> t, err |-> ConflictError(pattern, t[child].val[1].pattern)]
         ELSE RegisterLoop([t EXCEPT ![child].val = matchitem(pattern, val)],
                           child, sections, i + 1, pattern, val)
    ELSE RegisterLoop(t, child, sections, i + 1, pattern, val)

\* the start of the loop's body: index is what indexChild gave for section i
RegisterSection(t, cur, sections, i, pattern, val, index) ==
    IF index = -1
    THEN RegisterChild(AddChild(t, cur, At(sections, i)), Len(t) + 1, sections, i,
                       pattern, val)
    ELSE RegisterChild(t, At(t[cur].children, index), sections, i, pattern, val)

\* the loop of Tree.Register over the sections, cur being the node reached
RegisterLoop(t, cur, sections, i, pattern, val) ==
    IF i >= Len(sections) THEN [tree |-> t, err |-> NoError]
    ELSE RegisterSection(t, cur, sections, i, pattern, val,
                         indexChild(t, cur, At(sections, i)))

\* what Tree.Register returns, c being the compiled sections and r the loop's outcome
RegisterReturn(c, r) ==
    IF r.err # NoError THEN [tree |-> r.tree, names |-> <<>>, err |-> r.err]
    ELSE [tree |-> r.tree, names |-> variables(c.sections), err |-> NoError]

\* Tree.Register once the pattern is compiled
RegisterSections(t, pattern, val, c) ==
    IF c.err # NoError THEN [tree |-> t, names |-> <<>>, err |-> c.err]
    ELSE RegisterReturn(c, RegisterLoop(t, Root, c.sections, 0, pattern, val))

\* Tree.Register: the tree afterwards, the variable names and the error
TreeRegister(t, pattern, val) == RegisterSections(t, pattern, val, CompileSection(pattern))

\* Exhausted that takes every matched section for the end of the path
Exhausted_Always(lefttokens) == TRUE

\* len(lefttokens) == 0: the section matched the last token
Exhausted(lefttokens) == lefttokens = <<>>

RECURSIVE matchchildren(_, _, _, _)
RECURSIVE matchchildrenLoop(_, _, _, _, _)
\* the child matched with tokens left: deeper is the outcome of the call on the
\* child, bound1 the caller's map after the copy of the section's bindings
matchchildrenDeeper(t, cur, k, tokens, bound1, deeper) ==
    IF deeper.item # Nil
    THEN [item |-> deeper.item, vars |-> MapsCopy(bound1, deeper.vars)]
    ELSE matchchildrenLoop(t, cur, k + 1, tokens, bound1)

\* the body of the loop for the child, m being the outcome of its section's Match
matchchildrenChild(t, cur, k, tokens, bound, child, m) ==
    IF ~m.matched THEN matchchildrenLoop(t, cur, k + 1, tokens, bound)
    ELSE IF Exhausted(m.left) THEN [item |-> t[child].val, vars |-> MapsCopy(bound, m.vars)]
    ELSE \* the section's own map is the map the deeper call writes
         matchchildrenDeeper(t, cur, k, tokens, MapsCopy(bound, m.vars),
                             matchchildren(t, child, m.left, m.vars))

\* the loop of matchchildren over cur's children from position k; bound is the
\* content of the caller's map, which the loop writes as it goes
matchchildrenLoop(t, cur, k, tokens, bound) ==
    IF k > Len(t[cur].children) THEN [item |-> Nil, vars |-> bound]
    ELSE matchchildrenChild(t, cur, k, tokens, bound, t[cur].children[k],
                            SectionMatch(t[t[cur].children[k]].key, tokens))

\* matchchildren: the matchitem found (or nil) and the content of vars afterwards
matchchildren(t, cur, tokens, bound) ==
    IF tokens = <<>> THEN [item |-> Nil, vars |-> bound]
    ELSE matchchildrenLoop(t, cur, 1, tokens, bound)

\* the zero value of T, a string: ""
ZeroValue == <<>>

\* what Tree.Match returns, r being the outcome of matchchildren
MatchReturn(r) ==
    IF r.item = Nil THEN [matched |-> FALSE, val |-> ZeroValue, vars |-> r.vars]
    ELSE [matched |-> TRUE, val |-> r.item[1].val, vars |-> r.vars]

\* Tree.Match: (matched, value, vars)
TreeMatch(t, path) == MatchReturn(matchchildren(t, Root, PathTokens(path), EmptyMap))

(***************************************************************************)
(* Inputs                                                                  *)
(***************************************************************************)
\* the patterns registered, as the tests of the package write them
\* /api
P_api == <<"/", "a", "p", "i">>

\* /api/s
P_api_s == <<"/", "a", "p", "i", "/", "s">>

\* /api/v1
P_api_v1 == <<"/", "a", "p", "i", "/", "v", "1">>

\* /api/{version}
P_api_version == <<"/", "a", "p", "i", "/", "{", "v", "e", "r", "s", "i", "o", "n", "}">>

\* /api/v{version}*
P_api_vversion_star ==
    <<"/", "a", "p", "i", "/", "v", "{", "v", "e", "r", "s", "i", "o", "n", "}", "*">>

\* /api/v{a}*
P_api_va_star == <<"/", "a", "p", "i", "/", "v", "{", "a", "}", "*">>

\* /api/{a}/{b}/{c}
P_api_a_b_c ==
    <<"/", "a", "p", "i", "/", "{", "a", "}", "/", "{", "b", "}", "/", "{", "c", "}">>

\* /api/{path}*
P_api_path_star == <<"/", "a", "p", "i", "/", "{", "p", "a", "t", "h", "}", "*">>

\* /api/{name}/{path}*:action
P_api_name_path_star_action ==
    <<"/", "a", "p", "i", "/", "{", "n", "a", "m", "e", "}", "/", "{", "p", "a", "t", "h",
      "}", "*", ":", "a", "c", "t", "i", "o", "n">>

\* /api/{name}/{path}*
P_api_name_path_star ==
    <<"/", "a", "p", "i", "/", "{", "n", "a", "m", "e", "}", "/", "{", "p", "a", "t", "h",
      "}", "*">>

\* /api/{name}/{path}
P_api_name_path ==
    <<"/", "a", "p", "i", "/", "{", "n", "a", "m", "e", "}", "/", "{", "p", "a", "t", "h",
      "}">>

\* /api/{dog:[a-z]+}
P_api_dog ==
    <<"/", "a", "p", "i", "/", "{", "d", "o", "g", ":", "[", "a", "-", "z", "]", "+", "}">>

\* /api/{a}/{a}/x
P_api_a_a_x == <<"/", "a", "p", "i", "/", "{", "a", "}", "/", "{", "a", "}", "/", "x">>

\* /api/{name/{path}
P_unclosed ==
    <<"/", "a", "p", "i", "/", "{", "n", "a", "m", "e", "/", "{", "p", "a", "t", "h", "}">>

\* the request paths matched
\* the empty path
R_empty == <<>>

\* /api
R_api == <<"/", "a", "p", "i">>

\* /api/s
R_api_s == <<"/", "a", "p", "i", "/", "s">>

\* /api/v1
R_api_v1 == <<"/", "a", "p", "i", "/", "v", "1">>

\* /api/v2
R_api_v2 == <<"/", "a", "p", "i", "/", "v", "2">>

\* /api/HI
R_api_HI == <<"/", "a", "p", "i", "/", "H", "I">>

\* /api/hi
R_api_hi == <<"/", "a", "p", "i", "/", "h", "i">>

\* /api/dog/wang
R_api_dog_wang == <<"/", "a", "p", "i", "/", "d", "o", "g", "/", "w", "a", "n", "g">>

\* /api/v2/v/k
R_api_v2_v_k == <<"/", "a", "p", "i", "/", "v", "2", "/", "v", "/", "k">>

\* /api/v1/g/v/k
R_api_v1_g_v_k == <<"/", "a", "p", "i", "/", "v", "1", "/", "g", "/", "v", "/", "k">>

\* /api/dog/wang/1:action
R_api_dog_wang_1_action ==
    <<"/", "a", "p", "i", "/", "d", "o", "g", "/", "w", "a", "n", "g", "/", "1", ":", "a",
      "c", "t", "i", "o", "n">>

\* /api/v/v/x
R_api_v_v_x == <<"/", "a", "p", "i", "/", "v", "/", "v", "/", "x">>

Patterns ==
    {P_api, P_api_s, P_api_v1, P_api_version, P_api_vversion_star, P_api_va_star,
     P_api_a_b_c, P_api_path_star, P_api_name_path_star_action, P_api_name_path_star,
     P_api_name_path, P_api_dog, P_api_a_a_x, P_unclosed}

Paths ==
    {R_empty, R_api, R_api_s, R_api_v1, R_api_v2, R_api_HI, R_api_hi, R_api_dog_wang,
     R_api_v2_v_k, R_api_v1_g_v_k, R_api_dog_wang_1_action, R_api_v_v_x}

\* the value registered with a pattern: the pattern itself, as Test_matcher_Match
\* registers them (m.Register(v, v)), so that a value names its pattern
ValueOf(pattern) == pattern

\* the number of patterns a matcher holds in this model
MaxRegistered == 3

(***************************************************************************)
(* The state: the matcher's tree and what the last call returned           *)
(***************************************************************************)
Terminals(t) == {n \in 1..Len(t) : t[n].val # Nil}

\* the patterns the tree holds a value for
Registered == {tree[n].val[1].pattern : n \in Terminals(tree)}

\* no call returned yet
NoCall ==
    [op |-> "none", arg |-> <<>>, ok |-> FALSE, val |-> ZeroValue, vars |-> EmptyMap,
     names |-> <<>>, err |-> NoError]

\* no request answered and no Handle called yet
NoResponse ==
    [op |-> "none", method |-> "", arg |-> <<>>, outcome |-> "none", status |-> 0,
     handler |-> 0, allow |-> <<>>]

\* a multiplexer of the given kind, as its constructor leaves it; the kind "Tree" is
\* the matcher used without a multiplexer
NewMuxOf(kind) == [kind |-> kind, pathmap |-> EmptyMap, calls |-> 0]

Init ==
    /\ tree = NewMatcher
    /\ ret = NoCall
    /\ mux = NewMuxOf("Tree")
    /\ resp = NoResponse

\* what a call of Register leaves for the caller, r being Tree.Register's outcome
RegisterCall(pattern, r) ==
    [op |-> "Register", arg |-> pattern, ok |-> r.err = NoError, val |-> ZeroValue,
     vars |-> EmptyMap, names |-> r.names, err |-> r.err]

\* what a call of Match leaves for the caller, r being Tree.Match's outcome
MatchCall(path, r) ==
    [op |-> "Match", arg |-> path, ok |-> r.matched, val |-> r.val, vars |-> r.vars,
     names |-> <<>>, err |-> NoError]

Register ==
    /\ Cardinality(Terminals(tree)) < MaxRegistered
    /\ \E pattern \in Patterns :
          /\ ret' = RegisterCall(pattern, TreeRegister(tree, pattern, ValueOf(pattern)))
          /\ tree' = TreeRegister(tree, pattern, ValueOf(pattern)).tree
    /\ UNCHANGED <<mux, resp>>

Match ==
    \E path \in Paths :
        /\ ret' = MatchCall(path, TreeMatch(tree, path))
        /\ UNCHANGED <<tree, mux, resp>>

Next == Register \/ Match

Spec == Init /\ [][Next]_vars

(***************************************************************************)
(* Registrations that tell their values apart: the same pattern may come   *)
(* with either value, and the patterns include those Register refuses      *)
(***************************************************************************)
\* the empty pattern
P_empty == <<>>

\* /api/{name}*
P_api_name_star == <<"/", "a", "p", "i", "/", "{", "n", "a", "m", "e", "}", "*">>

\* /api/{dog:[a-z}
P_api_badregex ==
    <<"/", "a", "p", "i", "/", "{", "d", "o", "g", ":", "[", "a", "-", "z", "}">>

\* /{a}/x
P_a_x == <<"/", "{", "a", "}", "/", "x">>

ValPatterns ==
    {P_empty, P_api_s, P_api_path_star, P_api_name_star, P_api_name_path, P_a_x,
     P_unclosed, P_api_badregex}

\* the values registered: two strings
Values == {<<"h", "1">>, <<"h", "2">>}

RegisterVal ==
    /\ Cardinality(Terminals(tree)) < MaxRegistered
    /\ \E pattern \in ValPatterns, val \in Values :
          /\ ret' = RegisterCall(pattern, TreeRegister(tree, pattern, val))
          /\ tree' = TreeRegister(tree, pattern, val).tree
    /\ UNCHANGED <<mux, resp>>

NextVal == RegisterVal \/ Match

SpecVal == Init /\ [][NextVal]_vars

(***************************************************************************)
(* The multiplexers: ServeMux and MethodServeMux of rest/mux (httpmux.go),  *)
(* on the matcher above, and Mux of rest/api (mux.go), on matcher.Node.     *)
(* A handler is known by the number of the Handle call that passed it; a    *)
(* handler that is invoked answers 200.                                     *)
(***************************************************************************)
\* the methods handlers are registered for; "" is the catch-all
Methods == {"", "GET", "POST"}

\* the methods of the requests
RequestMethods == {"GET", "POST", "OPTIONS"}

MuxPatterns == {P_api, P_api_s, P_api_path_star, P_unclosed}

MuxPaths == {R_api, R_api_s, R_api_dog_wang}

MuxKinds == {"ServeMux", "MethodServeMux", "Mux"}

\* the number of Handle calls on a multiplexer in this model
MaxHandled == 3

\* what the client gets
Response(outcome, status, handler, allow) ==
    [outcome |-> outcome, status |-> status, handler |-> handler, allow |-> allow]

\* handler.ServeHTTP(w, r)
HandlerServes(handler) == Response("handler", 200, handler, <<>>)

\* http.NotFound, the default NotFoundHandler
HttpNotFound == Response("NotFound", 404, 0, <<>>)

\* MethodNotAllowed: http.Error(w, "405 method not allowed", 405)
MethodNotAllowed(allow) == Response("NotAllowed", 405, 0, allow)

\* ServeMux.ServeHTTP, r being what the matcher returned for the path
ServeMuxDispatch(r) == IF r.matched THEN HandlerServes(r.val) ELSE HttpNotFound

ServeMuxServeHTTP(t, path) == ServeMuxDispatch(TreeMatch(t, path))

\* ServeMux.Handle: the tree afterwards; what Register returns is dropped
ServeMuxHandle(t, pattern, handler) == TreeRegister(t, pattern, handler).tree

\* MethodHandler.ServeHTTP
MethodHandlerServeHTTP(m, method) ==
    IF "" \in DOMAIN m THEN HandlerServes(m[""])
    ELSE IF method \in DOMAIN m THEN HandlerServes(m[method])
    ELSE HttpNotFound

\* MethodServeMux.ServeHTTP, r being what the matcher returned for the path: the
\* value is the pointer to the MethodHandler, which pathmap holds under its pattern
MethodServeMuxDispatch(pathmap, r, method) ==
    IF r.matched THEN MethodHandlerServeHTTP(pathmap[r.val], method) ELSE HttpNotFound

MethodServeMuxServeHTTP(t, pathmap, method, path) ==
    MethodServeMuxDispatch(pathmap, TreeMatch(t, path), method)

\* MethodServeMux.Handle: the tree and pathmap afterwards, and whether it returned
\* or panicked; the MethodHandler made for a pattern is known by the pattern
MethodServeMuxHandle(t, pathmap, method, pattern, handler) ==
    IF pattern \in DOMAIN pathmap
    THEN IF method \in DOMAIN pathmap[pattern]
         THEN [tree |-> t, pathmap |-> pathmap, outcome |-> "panic"]
         ELSE [tree |-> t,
               pathmap |-> MapSet(pathmap, pattern, MapSet(pathmap[pattern], method, handler)),
               outcome |-> "returned"]
    ELSE [tree |-> TreeRegister(t, pattern, pattern).tree,
          pathmap |-> MapSet(pathmap, pattern, MapSet(EmptyMap, method, handler)),
          outcome |-> "returned"]

RECURSIVE GetLoop(_, _, _, _)
\* the descent of Node.Get along the sections: index is the child found for
\* section i (-1: none, and the child is made)
GetSection(t, cur, sections, i, index) ==
    IF index = -1
    THEN GetLoop(AddChild(t, cur, At(sections, i)), Len(t) + 1, sections, i + 1)
    ELSE GetLoop(t, At(t[cur].children, index), sections, i + 1)

GetLoop(t, cur, sections, i) ==
    IF i >= Len(sections) THEN [tree |-> t, node |-> cur, err |-> NoError]
    ELSE GetSection(t, cur, sections, i, indexChild(t, cur, At(sections, i)))

\* Node.Get once the pattern is compiled
GetSections(t, c) ==
    IF c.err # NoError THEN [tree |-> t, node |-> 0, err |-> c.err]
    ELSE GetLoop(t, Root, c.sections, 0)

\* Node.Get: the node of the pattern, made with the nodes that lead to it when the
\* tree does not hold it, or the compile error
NodeGet(t, pattern) == GetSections(t, CompileSection(pattern))

\* Node.Match: the descent of the matcher; a node's Value is the val of its
\* matchitem, and a node without Value counts as no node
NodeMatch(t, path) == TreeMatch(t, path)

\* node.Value, nil read as the empty MethodsHandler
NodeValue(t, node) == IF t[node].val = Nil THEN EmptyMap ELSE t[node].val[1].val

\* Mux.Handle once Get returned g: the tree afterwards and whether an error came back
MuxHandleAt(method, pattern, handler, g) ==
    IF g.err # NoError THEN [tree |-> g.tree, outcome |-> "error"]
    ELSE IF method \in DOMAIN NodeValue(g.tree, g.node)
    THEN [tree |-> g.tree, outcome |-> "error"]
    ELSE [tree |-> [g.tree EXCEPT ![g.node].val =
                       matchitem(pattern, MapSet(NodeValue(g.tree, g.node), method, handler))],
          outcome |-> "returned"]

\* Mux.Handle
MuxHandle(t, method, pattern, handler) ==
    MuxHandleAt(method, pattern, handler, NodeGet(t, pattern))

\* MethodsHandler.selectHandler: the handler of the method, else the catch-all's,
\* else nil (0)
selectHandler(h, method) ==
    IF method \in DOMAIN h THEN h[method]
    ELSE IF "" \in DOMAIN h THEN h[""]
    ELSE 0

\* the orders in which maps.Keys may list the methods
KeyOrders(keys) ==
    {q \in [1..Cardinality(keys) -> keys] : \A i, j \in DOMAIN q : i # j => q[i] # q[j]}

\* MethodsHandler.NotAllowed: the Allow header is set, and OPTIONS is answered 200
NotAllowed(method, allow) ==
    IF method = "OPTIONS" THEN Response("NotAllowed", 200, 0, allow)
    ELSE MethodNotAllowed(allow)

\* MuxDispatch without the test for a missing node or Value: the nil table is read
MuxDispatch_NoValueCheck(r, method, allow) ==
    IF r.matched /\ selectHandler(r.val, method) # 0
    THEN HandlerServes(selectHandler(r.val, method))
    ELSE NotAllowed(method, allow)

\* Mux.ServeHTTP, r being what Node.Match returned for the path and allow the
\* order of the keys; NotFound and MethodNotAllowed are nil, as NewMux leaves them
MuxDispatch(r, method, allow) ==
    IF ~r.matched THEN HttpNotFound
    ELSE IF selectHandler(r.val, method) # 0
    THEN HandlerServes(selectHandler(r.val, method))
    ELSE NotAllowed(method, allow)

MuxServeHTTP(t, method, path, allow) == MuxDispatch(NodeMatch(t, path), method, allow)

\* the keys a 405 of Mux may list for the path
AllowKeys(r) == IF r.matched THEN DOMAIN r.val ELSE {}

(***************************************************************************)
(* The state of a multiplexer, and its calls                               *)
(***************************************************************************)
InitMux ==
    /\ tree = NewMatcher
    /\ ret = NoCall
    /\ mux \in {NewMuxOf(kind) : kind \in MuxKinds}
    /\ resp = NoResponse

\* what a Handle call leaves for the caller
HandleCall(method, pattern, handler, outcome) ==
    [op |-> "Handle", method |-> method, arg |-> pattern, outcome |-> outcome,
     status |-> 0, handler |-> handler, allow |-> <<>>]

\* what a request leaves for the client
ServeCall(method, path, r) ==
    [op |-> "ServeHTTP", method |-> method, arg |-> path, outcome |-> r.outcome,
     status |-> r.status, handler |-> r.handler, allow |-> r.allow]

CallServeMuxHandle ==
    /\ mux.kind = "ServeMux" /\ mux.calls < MaxHandled
    /\ \E pattern \in MuxPatterns :
          /\ tree' = ServeMuxHandle(tree, pattern, mux.calls + 1)
          /\ resp' = HandleCall("", pattern, mux.calls + 1, "returned")
    /\ mux' = [mux EXCEPT !.calls = @ + 1]
    /\ UNCHANGED ret

CallServeMuxServeHTTP ==
    /\ mux.kind = "ServeMux"
    /\ \E method \in RequestMethods, path \in MuxPaths :
          resp' = ServeCall(method, path, ServeMuxServeHTTP(tree, path))
    /\ UNCHANGED <<tree, ret, mux>>

CallMethodServeMuxHandle ==
    /\ mux.kind = "MethodServeMux" /\ mux.calls < MaxHandled
    /\ \E method \in Methods, pattern \in MuxPatterns :
          LET r == MethodServeMuxHandle(tree, mux.pathmap, method, pattern, mux.calls + 1)
          IN  /\ tree' = r.tree
              /\ mux' = [mux EXCEPT !.calls = @ + 1, !.pathmap = r.pathmap]
              /\ resp' = HandleCall(method, pattern, mux.calls + 1, r.outcome)
    /\ UNCHANGED ret

CallMethodServeMuxServeHTTP ==
    /\ mux.kind = "MethodServeMux"
    /\ \E method \in RequestMethods, path \in MuxPaths :
          resp' = ServeCall(method, path,
                            MethodServeMuxServeHTTP(tree, mux.pathmap, method, path))
    /\ UNCHANGED <<tree, ret, mux>>

CallMuxHandle ==
    /\ mux.kind = "Mux" /\ mux.calls < MaxHandled
    /\ \E method \in Methods, pattern \in MuxPatterns :
          /\ tree' = MuxHandle(tree, method, pattern, mux.calls + 1).tree
          /\ resp' = HandleCall(method, pattern, mux.calls + 1,
                                MuxHandle(tree, method, pattern, mux.calls + 1).outcome)
    /\ mux' = [mux EXCEPT !.calls = @ + 1]
    /\ UNCHANGED ret

CallMuxServeHTTP ==
    /\ mux.kind = "Mux"
    /\ \E method \in RequestMethods, path \in MuxPaths :
          \E allow \in KeyOrders(AllowKeys(NodeMatch(tree, path))) :
              resp' = ServeCall(method, path, MuxServeHTTP(tree, method, path, allow))
    /\ UNCHANGED <<tree, ret, mux>>

NextMux ==
    \/ CallServeMuxHandle \/ CallServeMuxServeHTTP
    \/ CallMethodServeMuxHandle \/ CallMethodServeMuxServeHTTP
    \/ CallMuxHandle \/ CallMuxServeHTTP

SpecMux == InitMux /\ [][NextMux]_vars

(***************************************************************************)
(* Compile, CompileSection and Section.Match on their own, called as       *)
(* TestSection_Match calls them: compiled, _ := Compile(pattern);          *)
(* compiled.Match(PathTokens(tomatch))                                     *)
(***************************************************************************)
\* the patterns: pre{name}suf, pre{name}, pre{name}*, pre*, pre, {a}{b}, {a}:{b}, {a}*:cat, {r}*/i/{n}, /v1/pre*/x, /{a}*/{b}*, /api/{a}(backslash)*, (backslash)/a, }{, /a/{b
SecPatterns ==
    {<<"p", "r", "e", "{", "n", "a", "m", "e", "}", "s", "u", "f">>,
     <<"p", "r", "e", "{", "n", "a", "m", "e", "}">>,
     <<"p", "r", "e", "{", "n", "a", "m", "e", "}", "*">>,
     <<"p", "r", "e", "*">>,
     <<"p", "r", "e">>,
     <<"{", "a", "}", "{", "b", "}">>,
     <<"{", "a", "}", ":", "{", "b", "}">>,
     <<"{", "a", "}", "*", ":", "c", "a", "t">>,
     <<"{", "r", "}", "*", "/", "i", "/", "{", "n", "}">>,
     <<"/", "v", "1", "/", "p", "r", "e", "*", "/", "x">>,
     <<"/", "{", "a", "}", "*", "/", "{", "b", "}", "*">>,
     <<"/", "a", "p", "i", "/", "{", "a", "}", "\\", "*">>,
     <<"\\", "/", "a">>,
     <<"}", "{">>,
     <<"/", "a", "/", "{", "b">>}

\* the texts to match: the empty text, pre, presuf, prehisuf, xpre, prex, presuf/data, tom, tom:cat, :cat, t/z/i/c, t/z/i/c/d, /v1/pre/x, /api/x*, /a
SecTexts ==
    {<<>>,
     <<"p", "r", "e">>,
     <<"p", "r", "e", "s", "u", "f">>,
     <<"p", "r", "e", "h", "i", "s", "u", "f">>,
     <<"x", "p", "r", "e">>,
     <<"p", "r", "e", "x">>,
     <<"p", "r", "e", "s", "u", "f", "/", "d", "a", "t", "a">>,
     <<"t", "o", "m">>,
     <<"t", "o", "m", ":", "c", "a", "t">>,
     <<":", "c", "a", "t">>,
     <<"t", "/", "z", "/", "i", "/", "c">>,
     <<"t", "/", "z", "/", "i", "/", "c", "/", "d">>,
     <<"/", "v", "1", "/", "p", "r", "e", "/", "x">>,
     <<"/", "a", "p", "i", "/", "x", "*">>,
     <<"/", "a">>}

\* a pattern and a text, before any call
PureInput(pattern, tomatch) ==
    [op |-> "input", pattern |-> pattern, tomatch |-> tomatch]

InitPure ==
    /\ tree = NewMatcher
    /\ ret \in {PureInput(pattern, tomatch) : pattern \in SecPatterns, tomatch \in SecTexts}
    /\ mux = NewMuxOf("Tree")
    /\ resp = NoResponse

\* what CompileSection(pattern) returned, with Compile's elements
CompileCall(pattern, tomatch, c, cs) ==
    [op |-> "CompileSection", pattern |-> pattern, tomatch |-> tomatch,
     elems |-> c.elems, sections |-> cs.sections, err |-> cs.err]

\* what Compile(pattern).Match(PathTokens(tomatch)) returned
SectionMatchCall(pattern, tomatch, c, tokens, m) ==
    [op |-> "Section.Match", pattern |-> pattern, tomatch |-> tomatch,
     section |-> c.elems, tokens |-> tokens,
     matched |-> m.matched, left |-> m.left, vars |-> m.vars]

CallCompileSection ==
    /\ ret.op = "input"
    /\ ret' = CompileCall(ret.pattern, ret.tomatch, Compile(ret.pattern),
                          CompileSection(ret.pattern))
    /\ UNCHANGED <<tree, mux, resp>>

CallSectionMatch ==
    /\ ret.op = "input"
    /\ Compile(ret.pattern).err = NoError
    /\ ret' = SectionMatchCall(ret.pattern, ret.tomatch, Compile(ret.pattern),
                               PathTokens(ret.tomatch),
                               SectionMatch(Compile(ret.pattern).elems,
                                            PathTokens(ret.tomatch)))
    /\ UNCHANGED <<tree, mux, resp>>

NextPure == CallCompileSection \/ CallSectionMatch

SpecPure == InitPure /\ [][NextPure]_vars


(***************************************************************************)
(* What the claims speak of                                                *)
(***************************************************************************)
\* the last call was Match(path)
Matched(path) == ret.op = "Match" /\ ret.arg = path

\* a matcher that holds the pattern p alone
Alone(p) == TreeRegister(NewMatcher, p, ValueOf(p)).tree

\* p, registered alone, matches the path
AloneMatches(p, path) == TreeMatch(Alone(p), path).matched

Sections(p) == CompileSection(p).sections

Compiles(p) == CompileSection(p).err = NoError

HasGreedy(p) == \E k \in 1..Len(Compile(p).elems) : Compile(p).elems[k].Greedy

\* the segments of a path or of a pattern: one for each /, and one more for a
\* text before the first /
NumSegments(s) ==
    Cardinality({i \in 1..Len(s) : s[i] = "/"}) + (IF s # <<>> /\ s[1] # "/" THEN 1 ELSE 0)

\* no segment of the path is empty
NoEmptySegment(s) == \A i \in 1..Len(s) : s[i] = "/" => (i < Len(s) /\ s[i + 1] # "/")

\* the text of s after its n-th /
AfterNthSlash(s, n) ==
    LET upto(i) == Cardinality({j \in 1..i : s[j] = "/"})
    IN  IF upto(Len(s)) < n THEN <<>>
        ELSE SubSeq(s, (CHOOSE i \in 1..Len(s) : s[i] = "/" /\ upto(i) = n) + 1, Len(s))

IsLiteralSection(sec) == Len(sec) = 1 /\ sec[1].VarName = <<>> /\ ~sec[1].Greedy

IsSingleVariable(sec) ==
    Len(sec) = 2 /\ sec[1] = Const(<<"/">>) /\ sec[2].VarName # <<>> /\ ~sec[2].Greedy

\* p and q are the same but for one segment, a literal in p and one variable in q
LiteralVersusVariable(p, q) ==
    /\ Compiles(p) /\ Compiles(q) /\ Len(Sections(p)) = Len(Sections(q))
    /\ \E i \in 1..Len(Sections(p)) :
          /\ IsLiteralSection(Sections(p)[i]) /\ IsSingleVariable(Sections(q)[i])
          /\ \A j \in 1..Len(Sections(p)) : j # i => Sections(p)[j] = Sections(q)[j]

\* p ends in "/{v}*": its last section is a / and a greedy variable
GreedyTail(p) ==
    /\ Compiles(p) /\ Sections(p) # <<>>
    /\ LET last == Sections(p)[Len(Sections(p))]
       IN  Len(last) = 2 /\ last[1] = Const(<<"/">>) /\ last[2].VarName # <<>> /\ last[2].Greedy

TailVar(p) == Sections(p)[Len(Sections(p))][2].VarName

\* the sections before the last are literals
LiteralPrefix(p) == \A i \in 1..(Len(Sections(p)) - 1) : IsLiteralSection(Sections(p)[i])

\* the text of the pattern before its last section
PrefixText(p) ==
    Join([i \in 1..(Len(Sections(p)) - 1) |-> SectionString(Sections(p)[i])])

\* the path is the prefix of p, a /, and one or more segments, none empty
ExtendsPrefix(p, path) ==
    /\ HasPrefix(path, PrefixText(p) \o <<"/">>)
    /\ Len(path) > Len(PrefixText(p)) + 1
    /\ NoEmptySegment(path)

RECURSIVE PathBindings(_, _)
\* what the sections of one pattern bind along the tokens, each section matched on
\* the tokens the sections before it left, a deeper section's value replacing a
\* shallower one's
PathBindings(sections, tokens) ==
    IF sections = <<>> \/ tokens = <<>> THEN EmptyMap
    ELSE LET m == SectionMatch(Head(sections), tokens)
         IN  IF ~m.matched THEN EmptyMap
             ELSE MapsCopy(m.vars, PathBindings(Tail(sections), m.left))

(***************************************************************************)
(* The claims                                                              *)
(***************************************************************************)
\* C1: completeness of backtracking. Whenever some registered pattern, were it the
\* only pattern of a matcher, would match the path, Match on the full tree matches
\* the path: a sibling that leads to no terminal does not stop the later siblings.
C1_BacktrackingComplete ==
    ret.op = "Match" =>
        ((\E p \in Registered : AloneMatches(p, ret.arg)) => ret.ok)

\* C2: literal beats variable. When the two registered patterns differ at one
\* segment, a literal in one and a single variable in the other, and both match the
\* path, Match returns the value of the pattern with the literal.
C2_LiteralBeatsVariable ==
    ret.op = "Match" =>
        \A p, q \in Patterns :
            (/\ Registered = {p, q} /\ LiteralVersusVariable(p, q)
             /\ AloneMatches(p, ret.arg) /\ AloneMatches(q, ret.arg))
            => (ret.ok /\ ret.val = ValueOf(p))

C4_BindingMerge ==
    (ret.op = "Match" /\ ret.ok) =>
        LET want == PathBindings(Sections(ret.val), PathTokens(ret.arg))
        IN  \A name \in DOMAIN want :
                name \in DOMAIN ret.vars /\ ret.vars[name] = want[name]

\* C5: segment-count exactness. Match returns only values of registered patterns,
\* and a pattern without greedy element only for a path of as many segments as the
\* pattern has: not for a path that ends at an intermediate node, nor for a path
\* with tokens left after the pattern's last section.
C5_SegmentCount ==
    (ret.op = "Match" /\ ret.ok) =>
        /\ ret.val \in Registered
        /\ ~HasGreedy(ret.val) => NumSegments(ret.arg) = NumSegments(ret.val)

\* C5 witness: with "/api/s" alone, "/api" is not matched
C5_Witness == Matched(R_api) /\ ~ret.ok /\ Registered = {P_api_s}

\* the constraint of "{dog:[a-z]+}", and what it asks of a text: one or more
\* characters, each a lower-case letter
LowerPlus == <<"[", "a", "-", "z", "]", "+">>

LowerLetters ==
    {"a", "b", "c", "d", "e", "f", "g", "h", "i", "j", "k", "l", "m",
     "n", "o", "p", "q", "r", "s", "t", "u", "v", "w", "x", "y", "z"}

IsLowerWord(s) == s # <<>> /\ \A i \in 1..Len(s) : s[i] \in LowerLetters

\* what the i-th section of p captures on the path, the sections before it having
\* taken one token each
CapturedBy(p, path, i) ==
    SectionMatch(Sections(p)[i], SubSeq(PathTokens(path), i, Len(PathTokens(path)))).vars

\* the names of the variables of p that carry the constraint [a-z]+
LowerConstrained(p) ==
    {Compile(p).elems[k].VarName :
        k \in {j \in 1..Len(Compile(p).elems) : Compile(p).elems[j].Validate = LowerPlus}}

C7_NonGreedyPreferred ==
    (Matched(R_api_v2_v_k) /\ Registered = {P_api_va_star, P_api_a_b_c, P_api_path_star})
    => /\ ret.ok /\ ret.val = ValueOf(P_api_a_b_c)
       /\ ret.vars = (<<"a">> :> <<"v", "2">> @@ <<"b">> :> <<"v">> @@ <<"c">> :> <<"k">>)

\* the section b is the section a, which ends in a greedy variable, and a literal
ExtendsByLiteral(a, b) ==
    /\ a # <<>> /\ a[Len(a)].Greedy /\ a[Len(a)].VarName # <<>>
    /\ Len(b) = Len(a) + 1 /\ SubSeq(b, 1, Len(a)) = a /\ b[Len(b)].VarName = <<>>

\* C8: greedy variable with literal suffix. With "/api/{name}/{path}*:action" and
\* "/api/{name}/{path}*" registered, in either order, "/api/dog/wang/1:action"
\* returns the ":action" pattern with name = "dog" and path = "wang/1"; and among
\* the children of any node, a section made of a greedy variable and a literal
\* comes before the section that ends with the bare greedy variable.
C8_GreedyLiteralSuffix ==
    /\ (Matched(R_api_dog_wang_1_action)
        /\ Registered = {P_api_name_path_star_action, P_api_name_path_star})
       => /\ ret.ok /\ ret.val = ValueOf(P_api_name_path_star_action)
          /\ ret.vars = (<<"n", "a", "m", "e">> :> <<"d", "o", "g">>
                         @@ <<"p", "a", "t", "h">> :> <<"w", "a", "n", "g", "/", "1">>)
    /\ \A n \in 1..Len(tree) :
          \A i, j \in 1..Len(tree[n].children) :
              ExtendsByLiteral(tree[tree[n].children[i]].key, tree[tree[n].children[j]].key)
                  => j < i

\* C8 witness: both registered, the bare one first, and the path matched
C8_Witness ==
    /\ Matched(R_api_dog_wang_1_action) /\ ret.ok
    /\ Registered = {P_api_name_path_star_action, P_api_name_path_star}
    /\ tree[Len(tree)].val = matchitem(P_api_name_path_star_action,
                                       ValueOf(P_api_name_path_star_action))

VarWord == <<"h", "i">>

RECURSIVE Instantiate(_)
\* the literal text of the elements, with VarWord in place of each variable
Instantiate(elems) ==
    IF elems = <<>> THEN <<>>
    ELSE (IF Head(elems).VarName # <<>> THEN VarWord ELSE Head(elems).Pattern)
         \o Instantiate(Tail(elems))

\* C10: every registered pattern stays reachable. For every registered pattern,
\* Match on the pattern's literal text with a value in place of each variable
\* returns the pattern's value, and bindings with every variable name of it.
C10_RegisteredReachable ==
    \A p \in Registered :
        LET r == TreeMatch(tree, Instantiate(Compile(p).elems))
            names == variables(Sections(p))
        IN  /\ r.matched /\ r.val = ValueOf(p)
            /\ \A k \in 1..Len(names) : names[k] \in DOMAIN r.vars

\* the last step was a call of Register
Registering == ret'.op = "Register" /\ <<tree, ret>> # <<tree', ret'>>

IsConflict(err) == err # NoError /\ "Exists" \in DOMAIN err[1]

\* a Register of a pattern the tree holds a value for returns a conflict error that
\* names the pattern, and leaves every value and every result of Match as it was
StoredDuplicateConflicts ==
    [][\A p \in ValPatterns :
          (Registering /\ ret'.arg = p /\ p \in Registered)
          => /\ IsConflict(ret'.err) /\ ret'.err[1].Exists = p
             /\ \A n \in Terminals(tree) : tree'[n].val = tree[n].val
             /\ \A path \in Paths : TreeMatch(tree', path) = TreeMatch(tree, path)]_vars

\* C11: duplicate registration. After a Register that returned no error, a Register
\* of the same pattern string, with either value, returns a conflict error, and the
\* tree, hence what Match returns for every path, stays as the first left it.
C11_DuplicateConflict ==
    (ret.op = "Register" /\ ret.ok)
    => \A val \in Values :
          /\ IsConflict(TreeRegister(tree, ret.arg, val).err)
          /\ TreeRegister(tree, ret.arg, val).tree = tree
          /\ \A path \in Paths :
                TreeMatch(TreeRegister(tree, ret.arg, val).tree, path) = TreeMatch(tree, path)

RECURSIVE Structure(_)
\* the literal/variable/greedy sequence of the elements: a literal by its text, a
\* variable by {} whatever its name, a greedy element followed by *
Structure(elems) ==
    IF elems = <<>> THEN <<>>
    ELSE (IF Head(elems).VarName # <<>> THEN <<"{", "}">> ELSE Head(elems).Pattern)
         \o (IF Head(elems).Greedy THEN <<"*">> ELSE <<>>)
         \o Structure(Tail(elems))

\* p and q are different pattern strings with the same structure
SameStructure(p, q) ==
    /\ p # q /\ Compiles(p) /\ Compiles(q)
    /\ Structure(Compile(p).elems) = Structure(Compile(q).elems)

\* C12: structural conflict. A Register of a pattern that has the structure of a
\* registered pattern and differs from it in variable names only returns a conflict
\* error and adds no terminal.
C12_StructuralConflict ==
    [][(Registering /\ \E q \in Registered : SameStructure(q, ret'.arg))
       => /\ IsConflict(ret'.err)
          /\ Terminals(tree') = Terminals(tree)]_vars

\* C13: a Register that returns an error, a compile error or a conflict, leaves the
\* tree as it was: no node added, no value set, no children reordered, and so the
\* same result of Match for every path.
C13_FailedRegisterFrame ==
    [][(Registering /\ ~ret'.ok)
       => /\ tree' = tree
          /\ \A path \in Paths : TreeMatch(tree', path) = TreeMatch(tree, path)]_vars

\* C13 witness: a Register refused for a conflict, on a tree that holds the pattern
\* with the other value
C13_Witness ==
    /\ ret.op = "Register" /\ IsConflict(ret.err)
    /\ \E n \in Terminals(tree) :
          tree[n].val[1].pattern = ret.arg /\ tree[n].val[1].val = <<"h", "1">>
    /\ Cardinality(Registered) >= 2

RECURSIVE ScanNames(_, _, _, _)
\* the variable names as the pattern's text shows them, left to right: what stands
\* between a { and the : or } that follows it; at is "out" outside the braces,
\* "name" in a name and "constraint" after the :
ScanNames(p, i, name, at) ==
    IF i > Len(p) THEN <<>>
    ELSE CASE at = "out" ->
                ScanNames(p, i + 1, <<>>, IF p[i] = "{" THEN "name" ELSE "out")
           [] at = "name" ->
                IF p[i] = "}" THEN <<name>> \o ScanNames(p, i + 1, <<>>, "out")
                ELSE IF p[i] = ":" THEN ScanNames(p, i + 1, name, "constraint")
                ELSE ScanNames(p, i + 1, Append(name, p[i]), "name")
           [] OTHER ->
                IF p[i] = "}" THEN <<name>> \o ScanNames(p, i + 1, <<>>, "out")
                ELSE ScanNames(p, i + 1, name, "constraint")

\* C15: a Register that succeeds returns the variable names of the pattern, left to
\* right, one entry for each occurrence.
C15_VariablesInOrder ==
    (ret.op = "Register" /\ ret.ok) => ret.names = ScanNames(ret.arg, 1, <<>>, "out")

\* C15 witness: "/api/{a}/{a}/x" registered, the name a returned twice
C15_Witness ==
    /\ ret.op = "Register" /\ ret.ok /\ ret.arg = P_api_a_a_x
    /\ ret.names = <<<<"a">>, <<"a">>>>

\* C19: when Match returns matched = false the bindings it returns are empty: what
\* the sections matched on the way bound is not reported.
C19_NoBindingsOnMiss == (ret.op = "Match" /\ ~ret.ok) => ret.vars = EmptyMap

\* the tree holds a value for the pattern
TerminalOf(pattern) == {n \in Terminals(tree) : tree[n].val[1].pattern = pattern}

\* the route (method, pattern, handler) is in the multiplexer's trie: the pattern's
\* node holds the handler (ServeMux) or a method table with the handler
RouteInTrie(method, pattern, handler) ==
    \E n \in TerminalOf(pattern) :
        CASE mux.kind = "ServeMux" -> tree[n].val[1].val = handler
          [] mux.kind = "MethodServeMux" ->
                /\ method \in DOMAIN mux.pathmap[tree[n].val[1].val]
                /\ mux.pathmap[tree[n].val[1].val][method] = handler
          [] OTHER ->
                /\ method \in DOMAIN tree[n].val[1].val
                /\ tree[n].val[1].val[method] = handler

\* C14: registration errors are never swallowed. A Handle that returns normally
\* (no error returned, no panic) has put its route in the trie: when the pattern
\* does not compile or conflicts, the caller is told.
C14_ErrorsSurfaced ==
    (resp.op = "Handle" /\ resp.outcome = "returned")
    => RouteInTrie(resp.method, resp.arg, resp.handler)

\* C16: not found. A request whose path no registered pattern matches, be it that
\* the path only leads to a node without handler table, is answered by the NotFound
\* handler, with 404, and no handler of a route is invoked.
C16_NotFound ==
    (resp.op = "ServeHTTP" /\ ~\E p \in Registered : AloneMatches(p, resp.arg))
    => (resp.outcome = "NotFound" /\ resp.status = 404 /\ resp.handler = 0)

\* C16 witness: Mux holds "/api/s" and not "/api"; a request for "/api", which
\* leads to the node without Value, was answered 404
C16_Witness ==
    /\ resp.op = "ServeHTTP" /\ mux.kind = "Mux" /\ resp.arg = R_api
    /\ P_api_s \in Registered /\ P_api \notin Registered
    /\ resp.status = 404

\* the method table of a registered pattern in a multiplexer with methods
MethodTable(p) ==
    IF mux.kind = "MethodServeMux" THEN mux.pathmap[p]
    ELSE tree[CHOOSE n \in TerminalOf(p) : TRUE].val[1].val

\* p is the one registered pattern that matches the path
OnlyMatch(p, path) ==
    /\ p \in Registered /\ AloneMatches(p, path)
    /\ \A q \in Registered : AloneMatches(q, path) => q = p

\* the Allow header lists exactly the methods keys, each once
AllowLists(allow, keys) ==
    /\ Len(allow) = Cardinality(keys)
    /\ {allow[i] : i \in DOMAIN allow} = keys

\* C17: method not allowed. A request whose path matches a registered pattern that
\* has neither a handler for the request's method nor a catch-all handler is
\* answered 405, with an Allow header that lists exactly the methods registered
\* for that pattern.
C17_MethodNotAllowed ==
    (resp.op = "ServeHTTP" /\ mux.kind # "ServeMux")
    => \A p \in Registered :
          (/\ OnlyMatch(p, resp.arg)
           /\ resp.method \notin DOMAIN MethodTable(p)
           /\ "" \notin DOMAIN MethodTable(p))
          => (resp.status = 405 /\ AllowLists(resp.allow, DOMAIN MethodTable(p)))

\* a step is a Handle(method, pattern, _) of a multiplexer with methods
HandleStep(method, pattern) ==
    /\ mux.kind # "ServeMux" /\ mux'.calls = mux.calls + 1
    /\ resp'.op = "Handle" /\ resp'.method = method /\ resp'.arg = pattern

\* the method table of the pattern, empty before its first registration
TableBefore(p) == IF p \in Registered THEN MethodTable(p) ELSE EmptyMap

\* a Handle of a registered (method, pattern) pair fails and changes nothing; any
\* other Handle of a pattern that compiles succeeds and adds the method to the
\* table of the one node of the pattern
HandleKeepsTable ==
    \A method \in Methods, pattern \in MuxPatterns :
        HandleStep(method, pattern) =>
            IF method \in DOMAIN TableBefore(pattern)
            THEN /\ resp'.outcome # "returned"
                 /\ tree' = tree /\ mux'.pathmap = mux.pathmap
            ELSE CompileSection(pattern).err = NoError =>
                 /\ resp'.outcome = "returned"
                 /\ Cardinality(TerminalOf(pattern)') = 1
                 /\ MethodTable(pattern)' = MapSet(TableBefore(pattern), method, resp'.handler)

\* the Handle half of the method table holds on every step
C18_HandleOnly == [][HandleKeepsTable]_vars

\* C18: per-pattern method table. The handlers that Handle registered for one
\* pattern under different methods share the pattern's node, and a request on a
\* path that only this pattern matches is dispatched to the handler registered
\* for the request's method.
C18_MethodTable ==
    (resp.op = "ServeHTTP" /\ mux.kind # "ServeMux")
    => \A p \in Registered :
          (OnlyMatch(p, resp.arg) /\ resp.method \in DOMAIN MethodTable(p))
          => (resp.outcome = "handler" /\ resp.handler = MethodTable(p)[resp.method])

\* C30: the handler of the method wins over the catch-all. When the one pattern
\* that matches the path holds a catch-all handler under "", a request whose
\* method has an entry of its own is served by that entry, and only a request of
\* another method is served by the catch-all.
C30_MethodOverCatchAll ==
    (resp.op = "ServeHTTP" /\ mux.kind # "ServeMux")
    => \A p \in Registered :
          (OnlyMatch(p, resp.arg) /\ "" \in DOMAIN MethodTable(p))
          => /\ resp.outcome = "handler"
             /\ resp.handler = IF resp.method \in DOMAIN MethodTable(p)
                               THEN MethodTable(p)[resp.method]
                               ELSE MethodTable(p)[""]

\* C23: no empty capture. A successful Section.Match never binds a variable that
\* is not greedy to the empty string, wherever the variable stands in the section.
C23_NoEmptyCapture ==
    (ret.op = "Section.Match" /\ ret.matched)
    => \A k \in 1..Len(ret.section) :
          (/\ ret.section[k].VarName # <<>>
           /\ ~ret.section[k].Greedy
           /\ ret.section[k].VarName \in DOMAIN ret.vars)
          => ret.vars[ret.section[k].VarName] # <<>>

RECURSIVE Rebuild(_, _)
\* the literals' texts and the variables' bound values, in element order; a
\* variable without binding adds nothing
Rebuild(s, bound) ==
    IF s = <<>> THEN <<>>
    ELSE (IF Head(s).VarName = <<>> THEN Head(s).Pattern
          ELSE IF Head(s).VarName \in DOMAIN bound THEN bound[Head(s).VarName]
          ELSE <<>>) \o Rebuild(Tail(s), bound)

\* C24: every character is accounted for. When Section.Match succeeds on a
\* section without greedy element, the head token is the concatenation of the
\* literals' texts and the variables' values, in element order: no character is
\* skipped to find a literal.
C24_EveryCharacter ==
    (/\ ret.op = "Section.Match" /\ ret.matched
     /\ \A k \in 1..Len(ret.section) : ~ret.section[k].Greedy)
    => Head(ret.tokens) = Rebuild(ret.section, ret.vars)

\* the places (section, element) of the greedy elements
GreedyPlaces(sections) ==
    {<<i, k>> \in (1..Len(sections)) \X (1..12) :
        k <= Len(sections[i]) /\ sections[i][k].Greedy}

\* C28: greedy placement. A pattern that compiles has at most one greedy element,
\* and it is the last element of the last section.
C28_GreedyPlacement ==
    (ret.op = "CompileSection" /\ ret.err = NoError)
    => /\ Cardinality(GreedyPlaces(ret.sections)) <= 1
       /\ \A g \in GreedyPlaces(ret.sections) :
             g[1] = Len(ret.sections) /\ g[2] = Len(ret.sections[g[1]])

RECURSIVE Skeleton(_)
\* each element's Pattern, followed by * when the element is greedy
Skeleton(elems) ==
    IF elems = <<>> THEN <<>>
    ELSE Head(elems).Pattern \o (IF Head(elems).Greedy THEN <<"*">> ELSE <<>>)
         \o Skeleton(Tail(elems))

\* C29: compile round trip. For a pattern without constraint that compiles, the
\* elements' Pattern texts, each followed by * when greedy, concatenate to the
\* pattern: compilation loses no character.
C29_CompileRoundTrip ==
    (/\ ret.op = "CompileSection" /\ ret.err = NoError
     /\ \A k \in 1..Len(ret.elems) : ret.elems[k].Validate = <<>>)
    => Skeleton(ret.elems) = ret.pattern

\* the section's last element is greedy
GreedyLast(sec) == sec # <<>> /\ sec[Len(sec)].Greedy

RECURSIVE LiteralHighScore(_)
\* the score in which a literal element counts 100 and a variable element -1
LiteralHighScore(sec) ==
    IF sec = <<>> THEN 0
    ELSE (IF Head(sec).VarName = <<>> THEN 100 ELSE -1) + LiteralHighScore(Tail(sec))

\* section a may stand before section b among the children of a node
MayPrecede(a, b) ==
    /\ ~(GreedyLast(a) /\ ~GreedyLast(b))
    /\ (GreedyLast(a) = GreedyLast(b)) => LiteralHighScore(a) >= LiteralHighScore(b)

\* C21: sibling ordering. In every node's children list the sections whose last
\* element is greedy come after all the others, and within each of the two groups
\* the sections stand in non-increasing order of the score in which a literal
\* counts 100 and a variable -1.
C21_SiblingOrder ==
    \A n \in 1..Len(tree) :
        \A i, j \in 1..Len(tree[n].children) :
            i < j => MayPrecede(tree[tree[n].children[i]].key,
                                tree[tree[n].children[j]].key)

\* the variable names a pattern declares
Declared(pattern) ==
    {variables(CompileSection(pattern).sections)[k] :
        k \in 1..Len(variables(CompileSection(pattern).sections))}

\* C22: binding exactness under backtracking. When Match succeeds, the value
\* returned being the pattern selected, the keys of the bindings returned are
\* variable names the pattern declares: the binding of an abandoned sibling
\* branch is not among them.
C22_BindingExactness ==
    (ret.op = "Match" /\ ret.ok) => DOMAIN ret.vars \subseteq Declared(ret.val)

\* C25: variables that are not greedy stay inside one segment. In a successful
\* match the value bound to a variable that is not greedy holds no "/" past the
\* one that opens its token, also when the variable follows a greedy element in
\* its section.
C25_NoSlashInCapture ==
    (ret.op = "Section.Match" /\ ret.matched)
    => \A k \in 1..Len(ret.section) :
          (/\ ret.section[k].VarName # <<>>
           /\ ~ret.section[k].Greedy
           /\ ret.section[k].VarName \in DOMAIN ret.vars)
          => \A i \in 2..Len(ret.vars[ret.section[k].VarName]) :
                ret.vars[ret.section[k].VarName][i] # "/"

\* p and q are patterns that differ by greedy markers only: their elements are
\* the same but for the Greedy flags
StarTwins(p, q) ==
    /\ p # q /\ Compiles(p) /\ Compiles(q)
    /\ Len(Compile(p).elems) = Len(Compile(q).elems)
    /\ \A k \in 1..Len(Compile(p).elems) :
          [Compile(p).elems[k] EXCEPT !.Greedy = FALSE]
             = [Compile(q).elems[k] EXCEPT !.Greedy = FALSE]

\* C26: greediness is part of a node's identity. A pattern that differs from a
\* registered pattern by a greedy marker only is stored under a node of its own:
\* its Register succeeds and adds a terminal, whichever of the two came first.
C26_GreedyIdentity ==
    [][\A p \in Patterns :
          (/\ Registering /\ ret'.arg = p /\ p \notin Registered
           /\ \E q \in Registered : StarTwins(p, q))
          => /\ ret'.err = NoError
             /\ p \in Registered'
             /\ Cardinality(Terminals(tree')) = Cardinality(Terminals(tree)) + 1]_vars

RECURSIVE RegisterAll(_, _)
\* the tree after the patterns of S were registered in one fixed order
RegisterAll(t, S) ==
    IF S = {} THEN t
    ELSE RegisterAll(TreeRegister(t, CHOOSE p \in S : TRUE,
                                  ValueOf(CHOOSE p \in S : TRUE)).tree,
                     S \ {CHOOSE p \in S : TRUE})

\* the patterns of S all register in the fixed order too
AllRegister(S) ==
    {RegisterAll(NewMatcher, S)[n].val[1].pattern : n \in Terminals(RegisterAll(NewMatcher, S))} = S

\* C27: registration order independence. For registered patterns that all
\* register successfully, what Match returns for a path (matched flag, value and
\* bindings) is what it returns when the same patterns are registered in another
\* order.
C27_OrderIndependence ==
    AllRegister(Registered)
    => \A path \in Paths :
          TreeMatch(tree, path) = TreeMatch(RegisterAll(NewMatcher, Registered), path)
====
